---- MODULE Spec2Model ----
(***************************************************************************)
(* PULSE backend: the websocket ingestion endpoint (backend/main.py), its  *)
(* detached segment tasks, the process-wide session registry, and the      *)
(* debug capture writer (backend/debug_logger.py) with a concurrent reader *)
(* of the artifact store.                                                  *)
(*                                                                         *)
(* Coroutines run on one asyncio event loop: the code between two awaits   *)
(* is one atomic action.  The awaits are websocket.accept/receive_json,    *)
(* pipeline.process_segment and websocket.send_json.                       *)
(***************************************************************************)
EXTENDS Integers, Sequences, FiniteSets, TLC

\* ---------------------------------------------------------------- bounds

\* Packets one client sends.
MaxPackets == 3

\* Full segments one drive is long enough for (flush may add a partial one).
MaxSegments == 2

\* Segment length of SegmentManager(segment_length_m=100.0), in units of 50 m.
SegLen == 2

Conns == {1, 2}
SessionIds == {"s1", "s2"}

\* A connection's session_id comes from the URL; the first connection's choice
\* is fixed, the second one may reuse it or not (the ids are interchangeable).
SidChoices(c) == IF c = 1 THEN {"s1"} ELSE SessionIds

None == "None"

\* Packet kinds a client sends: motion data, a position fix one unit on, a
\* position fix a long way on, a position fix whose speed is not a number,
\* and a frame that is not JSON.
PacketKinds == {"imu", "gps", "jump", "gps_badspeed", "bad"}

\* Distance a packet adds to the assembler's running distance.
Dist(kind) ==
    CASE kind = "gps" -> 1
      [] kind = "gps_badspeed" -> 1
      [] kind = "jump" -> 2 * SegLen
      [] OTHER -> 0

IsGps(kind) == kind \in {"gps", "jump", "gps_badspeed"}

Causes == {"boom"}

\* Callers of the debug capture (one pipeline each), and what they pass.
Callers == {"w1", "w2"}
CaptureSegments == {"seg_1"}
Stages == {"iri_result"}

\* The session a caller's logger is made for: as for the connections, the
\* second one may be the first one's or another.
LoggerSids(w) == IF w = "w1" THEN {"s1"} ELSE SessionIds

\* Capture operations one caller makes.
MaxCalls == 1

\* write() calls json.dump needs for one document.
DocChunks == 2

\* Result files the store holds when the process starts.
MaxDocs == 2

\* The segment directories those files lie in, per session.
StoredSegments == {"seg_1", "seg_2"}

VARIABLES
    pc,               \* websocket_endpoint of each connection: idle, recv, done
    sid,              \* session_id of each connection
    transport,        \* the socket itself: open or closed
    client_state,     \* websocket.client_state as the application sees it
    inbox,            \* frames received from the client, not yet read by the loop
    sent,             \* number of packets each client has sent
    manager,          \* SegmentManager of each connection
    pipeline,         \* PULSEPipeline of each connection
    active_sessions,  \* the session registry
    tasks,            \* process_and_notify tasks of each connection, in spawn order
    outbox,           \* messages delivered to each client, in order
    ingestLog,        \* history: packets handed to manager.ingest_packet, in order
    readyLog,         \* history: segments get_ready_segments returned, in order
    loopExit,         \* history: how the loop of each connection ended
    logger,           \* DebugLogger objects: enabled, session_id
    call,             \* the capture operation each caller is in
    calls,            \* number of capture operations each caller has made
    dirs,             \* directories of the artifact store
    fs,               \* files of the artifact store: path -> content
    lastRead,         \* what the reader of the store saw last
    req,              \* the REST request being served, and where its handler is
    resp              \* history: the request served before it, with its response

capVars == <<logger, call, calls, dirs, fs, lastRead>>

aggVars == <<req, resp>>

vars == <<pc, sid, transport, client_state, inbox, sent, manager, pipeline,
          active_sessions, tasks, outbox, ingestLog, readyLog, loopExit, capVars,
          aggVars>>

\* ------------------------------------------------------- segment assembler

NewManager == [buf |-> <<>>, dist |-> 0, ready |-> <<>>, next |-> 1]

Segment(id, pkts, partial) == [segment_id |-> id, pkts |-> pkts, partial |-> partial]

\* k segments cut at once: the first holds the buffered packets, the others
\* the packet that spanned them.
RECURSIVE CutSegments(_, _, _, _)
CutSegments(k, id, first, rest) ==
    IF k = 0 THEN <<>>
    ELSE <<Segment(id, first, FALSE)>> \o CutSegments(k - 1, id + 1, rest, rest)

ingest_packet(m, p) ==
    LET buf  == Append(m.buf, p.n)
        d    == m.dist + Dist(p.kind)
        k    == d \div SegLen
        left == d % SegLen
    IN  IF k = 0
        THEN [m EXCEPT !.buf = buf, !.dist = d]
        ELSE [buf   |-> IF left = 0 THEN <<>> ELSE <<p.n>>,
              dist  |-> left,
              ready |-> m.ready \o CutSegments(k, m.next, buf, <<p.n>>),
              next  |-> m.next + k]

get_ready_segments(m) == m.ready

Drained(m) == [m EXCEPT !.ready = <<>>]

flush(m) ==
    IF m.buf = <<>> THEN m
    ELSE [buf   |-> <<>>,
          dist  |-> 0,
          ready |-> Append(m.ready, Segment(m.next, m.buf, TRUE)),
          next  |-> m.next + 1]

\* ------------------------------------------------------------------ state

NewTask(seg) ==
    [seg |-> seg, st |-> "created", cause |-> None, note |-> None]

\* "current_gps": None, written as the position no packet carries.
NoGps == [lat |-> 0, lng |-> 0]

Entry(c) == [owner |-> c, current_gps |-> NoGps, current_speed_kmh |-> 0]

NoLogger == [made |-> FALSE, session_id |-> None, enabled |-> FALSE]

NoCall == [op |-> None, seg |-> None, plan |-> <<>>, at |-> 1, n |-> -1, status |-> "none"]

NoRead == [path |-> <<>>, n |-> -1]

EmptyMap == [x \in {} |-> None]

Put(f, k, v) == [x \in DOMAIN f \cup {k} |-> IF x = k THEN v ELSE f[x]]

Pop(f, k) == [x \in DOMAIN f \ {k} |-> f[x]]

\* ------------------------------------------------- final-result documents

\* An optional value: absent (a missing key, None, null) or present.
Absent == <<>>

Some(v) == <<v>>

\* The content of pipeline_result.json once parsed: a JSON object with the keys
\* the aggregation reads ("iri" is absent, null or an object), or some other
\* JSON value.  Roughness is in hundredths, condition in tenths, length in
\* units of 0.0001 km: what round(x, 2), round(x, 1) and round(x, 4) keep.
Document(session_id, segment_id, iri, iri_value, pci, km, distresses) ==
    [json |-> "object", session_id |-> session_id, segment_id |-> segment_id,
     iri |-> iri, iri_value |-> iri_value, pci_estimate |-> pci, length_km |-> km,
     distresses |-> distresses]

\* A complete result: every key the aggregation reads is there.
Full(s, g, v) == Document(Some(s), Some(g), "object", Some(v), Some(500), Some(10000), Some(1))

\* A complete result that does not say which session it is of.
NoSid(g, v) == Document(Absent, Some(g), "object", Some(v), Some(500), Some(10000), Some(1))

\* A result with no roughness, no condition score and no length.
Bare(s, g) == Document(Some(s), Some(g), "absent", Absent, Absent, Absent, Absent)

\* A result whose roughness section is null.
NullIri(s, g) == Document(Some(s), Some(g), "null", Absent, Some(500), Some(10000), Some(1))

\* Valid JSON that is not an object.
ArrayDoc == [Document(Absent, Absent, "absent", Absent, Absent, Absent, Absent)
                EXCEPT !.json = "array"]

\* A file of the store: who wrote it, how much of the text is there, and the
\* document the whole text is.
Artifact(by, n, doc) == [by |-> by, n |-> n, doc |-> doc]

\* Directory names of the store in the order sorted() puts them (code points).
NamesInOrder == <<"s1", "s2", "seg_1", "seg_2", "seg_3", "seg_4", "seg_5", "unknown">>

NameRank(name) == CHOOSE i \in DOMAIN NamesInOrder : NamesInOrder[i] = name

\* The directory name of the k-th segment of a session.
SegmentName(k) == NamesInOrder[2 + k]

\* What the pipeline of connection c has recorded when process_segment returns.
ResultPath(c, seg) == <<sid[c], SegmentName(seg.segment_id), "pipeline_result.json">>

ResultDoc(c, seg) == Full(sid[c], SegmentName(seg.segment_id), 100)

\* The directories a file of the store lies in.
DirsOf(path) == {<<path[1]>>, <<path[1], path[2], "">>}

\* ------------------------------------------------------------ REST requests

\* What changes with every change a connection makes to the registry (open,
\* the telemetry of a packet, teardown); it never returns to an earlier value.
Epoch == [c \in Conns |-> <<pc[c], Len(ingestLog[c])>>]

NoOut == [none |-> TRUE]

NoReq == [op |-> None, arg |-> None, at |-> "idle", todo |-> {}, n |-> 0,
          out |-> NoOut, error |-> None, epoch |-> <<>>]

\* A handler is entered: FastAPI runs it in a worker thread.
NewRequest(op, arg) ==
    [op |-> op, arg |-> arg, at |-> "begun", todo |-> {}, n |-> 0, out |-> NoOut,
     error |-> None, epoch |-> Epoch]

\* The handler returns `out`.
Returns(r, out) == [r EXCEPT !.at = "returned", !.todo = {}, !.n = 0, !.out = out]

\* An exception leaves the handler: the request fails (500).
Raises(r, e) ==
    [r EXCEPT !.at = "raised", !.todo = {}, !.n = 0, !.out = NoOut, !.error = e]

NoRequestRunning == req.at \in {"idle", "returned", "raised"}

\* The process has started: no connection, no logger, no request.
InitProcess ==
    /\ pc = [c \in Conns |-> "idle"]
    /\ sid = [c \in Conns |-> None]
    /\ transport = [c \in Conns |-> "closed"]
    /\ client_state = [c \in Conns |-> "CONNECTING"]
    /\ inbox = [c \in Conns |-> <<>>]
    /\ sent = [c \in Conns |-> 0]
    /\ manager = [c \in Conns |-> NewManager]
    /\ pipeline = [c \in Conns |-> [finalised |-> FALSE]]
    /\ active_sessions = EmptyMap
    /\ tasks = [c \in Conns |-> <<>>]
    /\ outbox = [c \in Conns |-> <<>>]
    /\ ingestLog = [c \in Conns |-> <<>>]
    /\ readyLog = [c \in Conns |-> <<>>]
    /\ loopExit = [c \in Conns |-> None]
    /\ logger = [w \in Callers |-> NoLogger]
    /\ call = [w \in Callers |-> NoCall]
    /\ calls = [w \in Callers |-> 0]
    /\ lastRead = NoRead
    /\ req = NoReq
    /\ resp = NoReq

\* ... with an empty artifact store.
Init ==
    /\ InitProcess
    /\ dirs = {}
    /\ fs = EmptyMap

\* What a result file left by earlier runs of the process may hold: a complete
\* result, one of another roughness, one that does not name its session, one
\* without the measured fields, one with a null roughness section, a JSON
\* array, and a complete result cut short by a crash of its writer.
FileKinds == {"full", "rougher", "nosid", "bare", "nulliri", "array", "cut"}

StoredFile(kind, path) ==
    LET s == path[1]
        g == path[2]
    IN  CASE kind = "full"    -> Artifact(None, DocChunks, Full(s, g, 100))
          [] kind = "rougher" -> Artifact(None, DocChunks, Full(s, g, 200))
          [] kind = "nosid"   -> Artifact(None, DocChunks, NoSid(g, 200))
          [] kind = "bare"    -> Artifact(None, DocChunks, Bare(s, g))
          [] kind = "nulliri" -> Artifact(None, DocChunks, NullIri(s, g))
          [] kind = "array"   -> Artifact(None, DocChunks, ArrayDoc)
          [] kind = "cut"     -> Artifact(None, 1, Full(s, g, 100))

StoredPaths == {<<s, g, "pipeline_result.json">> : s \in SessionIds, g \in StoredSegments}

\* ... with the artifact store earlier runs have left.
InitStored ==
    /\ InitProcess
    /\ \E P \in SUBSET StoredPaths :
          /\ Cardinality(P) <= MaxDocs
          /\ \E kind \in [P -> FileKinds] :
                /\ fs = [p \in P |-> StoredFile(kind[p], p)]
                /\ dirs = UNION {DirsOf(p) : p \in P}

\* ------------------------------------------------------- websocket_endpoint

\* await websocket.accept(), then the manager, the pipeline and the registry
\* entry are created and the loop waits for its first packet.
Open(c, s) ==
    /\ pc[c] = "idle"
    /\ pc' = [pc EXCEPT ![c] = "recv"]
    /\ sid' = [sid EXCEPT ![c] = s]
    /\ transport' = [transport EXCEPT ![c] = "open"]
    /\ client_state' = [client_state EXCEPT ![c] = "CONNECTED"]
    /\ active_sessions' = Put(active_sessions, s, Entry(c))
    /\ UNCHANGED <<aggVars, capVars, inbox, sent, manager, pipeline, tasks, outbox, ingestLog,
                   readyLog, loopExit>>

\* Mutant: the ready segments are walked last to first.
SpawnOrderReversed(segs) == [i \in 1..Len(segs) |-> segs[Len(segs) + 1 - i]]

\* The order in which the loop walks what get_ready_segments returned.
SpawnOrder(segs) == segs

\* asyncio.create_task(process_and_notify(websocket, pipeline, segment)) for
\* each segment, without awaiting any of them.
Spawn(c, segs) ==
    /\ tasks' = [tasks EXCEPT ![c] =
                    @ \o [i \in 1..Len(segs) |-> NewTask(SpawnOrder(segs)[i])]]
    /\ readyLog' = [readyLog EXCEPT ![c] = @ \o segs]

\* Mutant: the registry entry is removed on a disconnect only.
FinallyPopOnDisconnect(c, registry, how) ==
    /\ pipeline' = [pipeline EXCEPT ![c].finalised = TRUE]
    /\ active_sessions' = IF how = "disconnect" THEN Pop(registry, sid[c]) ELSE registry
    /\ pc' = [pc EXCEPT ![c] = "done"]
    /\ loopExit' = [loopExit EXCEPT ![c] = how]

\* finally: pipeline.finalise(); active_sessions.pop(session_id, None)
Finally(c, registry, how) ==
    /\ pipeline' = [pipeline EXCEPT ![c].finalised = TRUE]
    /\ active_sessions' = Pop(registry, sid[c])
    /\ pc' = [pc EXCEPT ![c] = "done"]
    /\ loopExit' = [loopExit EXCEPT ![c] = how]

\* The live telemetry of a gps packet: position first, then the speed.
WithGps(registry, s, p) ==
    [registry EXCEPT ![s].current_gps = [lat |-> p.n, lng |-> p.n]]

\* round(speed_ms * 3.6, 1), in tenths of a km/h; the packet's speed is p.n m/s.
WithSpeed(registry, s, p) ==
    [registry EXCEPT ![s].current_speed_kmh = 36 * p.n]

\* Mutant: the loop awaits its tasks before it receives again.
LoopReadyAfterTasks(c) ==
    /\ pc[c] = "recv"
    /\ inbox[c] # <<>>
    /\ \A i \in DOMAIN tasks[c] : tasks[c][i].st \in {"done", "failed"}

\* while True: packet = await websocket.receive_json() -- the loop goes on as
\* soon as a frame is there, whatever its tasks are doing.
LoopReady(c) == pc[c] = "recv" /\ inbox[c] # <<>>

TelemetryRaises(c, p) ==
    /\ IsGps(p.kind)
    /\ \/ sid[c] \notin DOMAIN active_sessions
       \/ p.kind = "gps_badspeed"

\* One turn of the loop: receive_json returns a packet, it is ingested, the
\* telemetry is updated and every ready segment gets its task.
LoopPacket(c) ==
    /\ LoopReady(c)
    /\ LET p  == Head(inbox[c])
           m1 == ingest_packet(manager[c], p)
       IN  /\ p.kind \notin {"disconnect", "bad"}
           /\ ~TelemetryRaises(c, p)
           /\ inbox' = [inbox EXCEPT ![c] = Tail(@)]
           /\ ingestLog' = [ingestLog EXCEPT ![c] = Append(@, p.n)]
           /\ active_sessions' =
                 IF IsGps(p.kind)
                 THEN WithSpeed(WithGps(active_sessions, sid[c], p), sid[c], p)
                 ELSE active_sessions
           /\ Spawn(c, get_ready_segments(m1))
           /\ manager' = [manager EXCEPT ![c] = Drained(m1)]
    /\ UNCHANGED <<aggVars, capVars, pc, sid, transport, client_state, sent, pipeline, outbox,
                   loopExit>>

\* receive_json raises on a frame that is not JSON: no except clause matches,
\* the finally block runs.
LoopDecodeFailure(c) ==
    /\ LoopReady(c)
    /\ Head(inbox[c]).kind = "bad"
    /\ inbox' = [inbox EXCEPT ![c] = Tail(@)]
    /\ Finally(c, active_sessions, "decode")
    /\ UNCHANGED <<aggVars, capVars, sid, transport, client_state, sent, manager, tasks, outbox,
                   ingestLog, readyLog>>

\* The telemetry update raises after the packet was ingested (KeyError: the
\* registry entry is gone; TypeError: the speed is not a number, after the
\* position was stored).  The ready segments are not polled.
LoopTelemetryFailure(c) ==
    /\ LoopReady(c)
    /\ LET p == Head(inbox[c])
       IN  /\ p.kind \notin {"disconnect", "bad"}
           /\ TelemetryRaises(c, p)
           /\ inbox' = [inbox EXCEPT ![c] = Tail(@)]
           /\ ingestLog' = [ingestLog EXCEPT ![c] = Append(@, p.n)]
           /\ manager' = [manager EXCEPT ![c] = ingest_packet(@, p)]
           /\ Finally(c, IF sid[c] \in DOMAIN active_sessions
                         THEN WithGps(active_sessions, sid[c], p)
                         ELSE active_sessions, "exception")
    /\ UNCHANGED <<aggVars, capVars, sid, transport, client_state, sent, tasks, outbox, readyLog>>

\* Mutant: the disconnect handler does not flush the assembler.
LoopDisconnectNoFlush(c) ==
    /\ LoopReady(c)
    /\ Head(inbox[c]).kind = "disconnect"
    /\ inbox' = [inbox EXCEPT ![c] = Tail(@)]
    /\ client_state' = [client_state EXCEPT ![c] = "DISCONNECTED"]
    /\ Spawn(c, get_ready_segments(manager[c]))
    /\ manager' = [manager EXCEPT ![c] = Drained(@)]
    /\ Finally(c, active_sessions, "disconnect")
    /\ UNCHANGED <<aggVars, capVars, sid, transport, sent, outbox, ingestLog>>

\* except WebSocketDisconnect: flush, one task per ready segment, then finally.
LoopDisconnect(c) ==
    /\ LoopReady(c)
    /\ Head(inbox[c]).kind = "disconnect"
    /\ inbox' = [inbox EXCEPT ![c] = Tail(@)]
    /\ client_state' = [client_state EXCEPT ![c] = "DISCONNECTED"]
    /\ LET m1 == flush(manager[c])
       IN  /\ Spawn(c, get_ready_segments(m1))
           /\ manager' = [manager EXCEPT ![c] = Drained(m1)]
    /\ Finally(c, active_sessions, "disconnect")
    /\ UNCHANGED <<aggVars, capVars, sid, transport, sent, outbox, ingestLog>>

\* The packet the loop of connection c has received and is working on.
Packet(c) == Head(inbox[c])

\* No coroutine is between two statements of its step: another one may run.
EventLoopFree == \A c \in Conns : pc[c] # "telemetry"

\* A turn of the loop for a gps packet, as the worker threads of the REST
\* handlers see it.  First the packet is ingested and the position stored
\* (main.py:148-157) ...
LoopGpsPosition(c) ==
    /\ LoopReady(c)
    /\ IsGps(Packet(c).kind)
    /\ sid[c] \in DOMAIN active_sessions
    /\ pc' = [pc EXCEPT ![c] = "telemetry"]
    /\ ingestLog' = [ingestLog EXCEPT ![c] = Append(@, Packet(c).n)]
    /\ manager' = [manager EXCEPT ![c] = ingest_packet(@, Packet(c))]
    /\ active_sessions' = WithGps(active_sessions, sid[c], Packet(c))
    /\ UNCHANGED <<aggVars, capVars, sid, transport, client_state, inbox, sent, pipeline,
                   tasks, outbox, readyLog, loopExit>>

\* ... then the speed is stored and every ready segment gets its task
\* (main.py:158-163) ...
LoopGpsSpeed(c) ==
    /\ pc[c] = "telemetry"
    /\ Packet(c).kind # "gps_badspeed"
    /\ inbox' = [inbox EXCEPT ![c] = Tail(@)]
    /\ pc' = [pc EXCEPT ![c] = "recv"]
    /\ active_sessions' = WithSpeed(active_sessions, sid[c], Packet(c))
    /\ Spawn(c, get_ready_segments(manager[c]))
    /\ manager' = [manager EXCEPT ![c] = Drained(@)]
    /\ UNCHANGED <<aggVars, capVars, sid, transport, client_state, sent, pipeline, outbox,
                   ingestLog, loopExit>>

\* ... or `speed_ms * 3.6` raises TypeError and the finally block runs.
LoopGpsSpeedRaises(c) ==
    /\ pc[c] = "telemetry"
    /\ Packet(c).kind = "gps_badspeed"
    /\ inbox' = [inbox EXCEPT ![c] = Tail(@)]
    /\ Finally(c, active_sessions, "exception")
    /\ UNCHANGED <<aggVars, capVars, sid, transport, client_state, sent, manager, tasks,
                   outbox, ingestLog, readyLog>>

\* ------------------------------------------------------------- the client

RECURSIVE SumDist(_)
SumDist(q) == IF q = <<>> THEN 0 ELSE Dist(Head(q).kind) + SumDist(Tail(q))

\* Full segments the drive of connection c makes once the inbox is ingested.
SegmentsOf(c, q) == (manager[c].next - 1) + (manager[c].dist + SumDist(q)) \div SegLen

ClientSend(c, kind) ==
    /\ pc[c] = "recv"
    /\ transport[c] = "open"
    /\ sent[c] < MaxPackets
    /\ SegmentsOf(c, Append(inbox[c], [n |-> 0, kind |-> kind])) <= MaxSegments
    /\ sent' = [sent EXCEPT ![c] = @ + 1]
    /\ inbox' = [inbox EXCEPT ![c] = Append(@, [n |-> sent[c] + 1, kind |-> kind])]
    /\ UNCHANGED <<aggVars, capVars, pc, sid, transport, client_state, manager, pipeline,
                   active_sessions, tasks, outbox, ingestLog, readyLog, loopExit>>

\* The client goes away: the socket is closed at once, the application learns
\* of it when receive_json reads the disconnect.
ClientDisconnect(c) ==
    /\ pc[c] = "recv"
    /\ transport[c] = "open"
    /\ transport' = [transport EXCEPT ![c] = "closed"]
    /\ inbox' = [inbox EXCEPT ![c] = Append(@, [n |-> 0, kind |-> "disconnect"])]
    /\ UNCHANGED <<aggVars, capVars, pc, sid, client_state, sent, manager, pipeline,
                   active_sessions, tasks, outbox, ingestLog, readyLog, loopExit>>

\* The endpoint has returned or raised: the server closes the socket.
ServerClose(c) ==
    /\ pc[c] = "done"
    /\ transport[c] = "open"
    /\ transport' = [transport EXCEPT ![c] = "closed"]
    /\ UNCHANGED <<aggVars, capVars, pc, sid, client_state, inbox, sent, manager, pipeline,
                   active_sessions, tasks, outbox, ingestLog, readyLog, loopExit>>

\* -------------------------------------------------------- process_and_notify

SetTask(c, i, t) == tasks' = [tasks EXCEPT ![c][i] = t]

\* A delivered message, with history: the task that sent it and the number of
\* packets the loop had ingested by then.

Deliver(c, i, payload) ==
    outbox' = [outbox EXCEPT ![c] =
                  Append(@, [by |-> i, seen |-> Len(ingestLog[c]), payload |-> payload])]

\* {"type": "segment_result", "data": result}
ResultMessage(seg) == [type |-> "segment_result", data |-> [segment_id |-> seg.segment_id]]

\* {"type": "error", "message": str(e)}
ErrorMessage(seg, cause) == [type |-> "error", message |-> cause]

\* History kept in a task: "closed_send" once it has called send_json on a
\* closed socket, else "skipped" once it has skipped a delivery.
Skipped(t) == IF t.note = None THEN [t EXCEPT !.note = "skipped"] ELSE t

ClosedSend(t) == [t EXCEPT !.note = "closed_send"]

\* The except clause: the error is logged, and sent if the application still
\* sees the connection as connected.
ExceptHandler(c, t, cause) ==
    IF client_state[c] = "CONNECTED"
    THEN [t EXCEPT !.st = "sending_error", !.cause = cause]
    ELSE Skipped([t EXCEPT !.st = "done", !.cause = cause])

\* The task is scheduled for the first time and calls pipeline.process_segment.
TaskStart(c, i) ==
    /\ i \in DOMAIN tasks[c]
    /\ tasks[c][i].st = "created"
    /\ SetTask(c, i, [tasks[c][i] EXCEPT !.st = "running"])
    /\ UNCHANGED <<aggVars, capVars, pc, sid, transport, client_state, inbox, sent, manager,
                   pipeline, active_sessions, outbox, ingestLog, readyLog, loopExit>>

\* process_segment returns a result; send_json serialises it before it awaits.
\* A result holding numpy values is not JSON serialisable: TypeError.
AfterPipelineReturns(c, t, outcome) ==
    IF client_state[c] # "CONNECTED"
    THEN Skipped([t EXCEPT !.st = "done"])
    ELSE IF outcome = "numpy"
         THEN ExceptHandler(c, t, "TypeError")
         ELSE [t EXCEPT !.st = "sending_result"]

\* The store after the pipeline has recorded the final result of a segment.
Recorded(store, c, seg) ==
    Put(store, ResultPath(c, seg), Artifact(None, DocChunks, ResultDoc(c, seg)))

\* process_segment returns: the pipeline has recorded the final result, and the
\* task goes on to deliver it.
TaskPipelineReturns(c, i, outcome) ==
    /\ i \in DOMAIN tasks[c]
    /\ tasks[c][i].st = "running"
    /\ SetTask(c, i, AfterPipelineReturns(c, tasks[c][i], outcome))
    /\ fs' = Recorded(fs, c, tasks[c][i].seg)
    /\ dirs' = dirs \cup DirsOf(ResultPath(c, tasks[c][i].seg))
    /\ UNCHANGED <<aggVars, logger, call, calls, lastRead, pc, sid, transport,
                   client_state, inbox, sent, manager, pipeline, active_sessions,
                   outbox, ingestLog, readyLog, loopExit>>

\* Mutant: the failure of process_segment reaches the loop that made the task.
TaskPipelineFailsInLoop(c, i, cause) ==
    /\ i \in DOMAIN tasks[c]
    /\ tasks[c][i].st = "running"
    /\ SetTask(c, i, ExceptHandler(c, tasks[c][i], cause))
    /\ pc' = [pc EXCEPT ![c] = "done"]
    /\ UNCHANGED <<aggVars, capVars, sid, transport, client_state, inbox, sent, manager,
                   pipeline, active_sessions, outbox, ingestLog, readyLog, loopExit>>

\* process_segment raises: the except clause of this task handles it.
TaskPipelineFails(c, i, cause) ==
    /\ i \in DOMAIN tasks[c]
    /\ tasks[c][i].st = "running"
    /\ SetTask(c, i, ExceptHandler(c, tasks[c][i], cause))
    /\ UNCHANGED <<aggVars, capVars, pc, sid, transport, client_state, inbox, sent, manager,
                   pipeline, active_sessions, outbox, ingestLog, readyLog, loopExit>>

\* Mutant: the error is sent after the result too (finally instead of except).
AfterResultSentThenError(t) == [t EXCEPT !.st = "sending_error", !.cause = "boom"]

\* The task after send_json(result) returned.
AfterResultSent(t) == [t EXCEPT !.st = "done"]

\* websocket.send_json(result) on an open socket.
TaskSendResult(c, i) ==
    /\ i \in DOMAIN tasks[c]
    /\ tasks[c][i].st = "sending_result"
    /\ transport[c] = "open"
    /\ Deliver(c, i, ResultMessage(tasks[c][i].seg))
    /\ SetTask(c, i, AfterResultSent(tasks[c][i]))
    /\ UNCHANGED <<aggVars, capVars, pc, sid, transport, client_state, inbox, sent, manager,
                   pipeline, active_sessions, ingestLog, readyLog, loopExit>>

\* websocket.send_json(result) on a closed socket raises: the except clause of
\* the same task catches it as if the pipeline had failed.
TaskSendResultRaises(c, i) ==
    /\ i \in DOMAIN tasks[c]
    /\ tasks[c][i].st = "sending_result"
    /\ transport[c] = "closed"
    /\ SetTask(c, i, ExceptHandler(c, ClosedSend(tasks[c][i]), "send failed"))
    /\ UNCHANGED <<aggVars, capVars, pc, sid, transport, client_state, inbox, sent, manager,
                   pipeline, active_sessions, outbox, ingestLog, readyLog, loopExit>>

\* websocket.send_json on a closed socket, with a server that drops the frame.
TaskSendResultDropped(c, i) ==
    /\ i \in DOMAIN tasks[c]
    /\ tasks[c][i].st = "sending_result"
    /\ transport[c] = "closed"
    /\ SetTask(c, i, ClosedSend([tasks[c][i] EXCEPT !.st = "done"]))
    /\ UNCHANGED <<aggVars, capVars, pc, sid, transport, client_state, inbox, sent, manager,
                   pipeline, active_sessions, outbox, ingestLog, readyLog, loopExit>>

\* websocket.send_json(error) on an open socket.
TaskSendError(c, i) ==
    /\ i \in DOMAIN tasks[c]
    /\ tasks[c][i].st = "sending_error"
    /\ transport[c] = "open"
    /\ Deliver(c, i, ErrorMessage(tasks[c][i].seg, tasks[c][i].cause))
    /\ SetTask(c, i, [tasks[c][i] EXCEPT !.st = "done"])
    /\ UNCHANGED <<aggVars, capVars, pc, sid, transport, client_state, inbox, sent, manager,
                   pipeline, active_sessions, ingestLog, readyLog, loopExit>>

\* websocket.send_json(error) raises inside the except clause: the exception
\* leaves the task.
TaskSendErrorRaises(c, i) ==
    /\ i \in DOMAIN tasks[c]
    /\ tasks[c][i].st = "sending_error"
    /\ transport[c] = "closed"
    /\ SetTask(c, i, ClosedSend([tasks[c][i] EXCEPT !.st = "failed"]))
    /\ UNCHANGED <<aggVars, capVars, pc, sid, transport, client_state, inbox, sent, manager,
                   pipeline, active_sessions, outbox, ingestLog, readyLog, loopExit>>

TaskSendErrorDropped(c, i) ==
    /\ i \in DOMAIN tasks[c]
    /\ tasks[c][i].st = "sending_error"
    /\ transport[c] = "closed"
    /\ SetTask(c, i, ClosedSend([tasks[c][i] EXCEPT !.st = "done"]))
    /\ UNCHANGED <<aggVars, capVars, pc, sid, transport, client_state, inbox, sent, manager,
                   pipeline, active_sessions, outbox, ingestLog, readyLog, loopExit>>


\* ------------------------------------------------------------- DebugLogger

orchVars == <<pc, sid, transport, client_state, inbox, sent, manager, pipeline,
              active_sessions, tasks, outbox, ingestLog, readyLog, loopExit>>

CaptureOps == {"log_raw_segment", "log_frames", "log_vlm_input", "log_vlm_output",
               "log_stage", "log_final_result"}

Mkdir(name) == [k |-> "mkdir", name |-> name]
File(name) == [k |-> "file", name |-> name]

\* f"{stage_name}.json"
StageFile(stage) == CASE stage = "iri_result" -> "iri_result.json"

\* What an operation does to the store once it is past its `enabled` test:
\* _seg_dir first, then its directories and files in the order of the code.
Plan(op, nframes, stage) ==
    CASE op = "log_raw_segment" ->
            <<Mkdir(""), File("raw_sensor_stats.json")>>
      [] op = "log_frames" ->
            IF nframes = 0 THEN <<>>
            ELSE <<Mkdir(""), Mkdir("captured_frames"),
                   File("captured_frames/frame_000.jpg")>>
      [] op = "log_vlm_input" ->
            <<Mkdir(""), Mkdir("vlm_input_frames")>>
            \o (IF nframes = 0 THEN <<>>
                ELSE <<File("vlm_input_frames/vlm_frame_000.jpg")>>)
            \o <<File("vlm_prompt.json")>>
      [] op = "log_vlm_output" ->
            <<Mkdir(""), File("vlm_raw_response.txt"), File("vlm_parsed.json")>>
      [] op = "log_stage" ->
            <<Mkdir(""), File(StageFile(stage))>>
      [] op = "log_final_result" ->
            <<Mkdir(""), File("pipeline_result.json")>>

\* os.path.join(self.session_dir, segment_id, name)
PathOf(w, cl, name) == <<logger[w].session_id, cl.seg, name>>

\* DebugLogger(session_id, enabled): the session directory is made when enabled.
NewLogger(w, s, enabled) ==
    /\ ~logger[w].made
    /\ logger' = [logger EXCEPT ![w] =
                     [made |-> TRUE, session_id |-> s, enabled |-> enabled]]
    /\ dirs' = IF enabled THEN dirs \cup {<<s>>} ELSE dirs
    /\ UNCHANGED <<aggVars, orchVars, call, calls, fs, lastRead>>

\* The call after one more step of its plan: it returns after the last one.
Advance(cl) ==
    IF cl.at + 1 > Len(cl.plan)
    THEN [cl EXCEPT !.plan = <<>>, !.at = 1, !.n = -1, !.status = "returned"]
    ELSE [cl EXCEPT !.at = @ + 1, !.n = -1]

\* Mutant: the operations do not test `enabled`.
EnabledPlanUntested(enabled, plan) == plan

\* `if not self.enabled: return` at the head of every operation.
EnabledPlan(enabled, plan) == IF enabled THEN plan ELSE <<>>

\* seg_id = segment.get("segment_id", "unknown") of log_raw_segment; the other
\* operations are given the identifier itself.
SegmentId(seg) == IF seg = None THEN "unknown" ELSE seg

\* A caller enters a capture operation.
CaptureCall(w, op, seg, nframes, stage) ==
    /\ logger[w].made
    /\ calls[w] < MaxCalls
    /\ call[w].status # "running"
    /\ seg = None => op = "log_raw_segment"
    /\ calls' = [calls EXCEPT ![w] = @ + 1]
    /\ LET plan == EnabledPlan(logger[w].enabled, Plan(op, nframes, stage))
       IN  call' = [call EXCEPT ![w] =
                       [op |-> op, seg |-> SegmentId(seg), plan |-> plan, at |-> 1,
                        n |-> -1,
                        status |-> IF plan = <<>> THEN "returned" ELSE "running"]]
    /\ UNCHANGED <<aggVars, orchVars, logger, dirs, fs, lastRead>>

Running(w) == call[w].status = "running"

Step(w) == call[w].plan[call[w].at]

\* The document an operation of caller w is given to write.
Captured(w) == Full(logger[w].session_id, call[w].seg, 100)

\* os.makedirs(d, exist_ok=True)
CaptureMkdir(w) ==
    /\ Running(w)
    /\ Step(w).k = "mkdir"
    /\ dirs' = dirs \cup {PathOf(w, call[w], Step(w).name)}
    /\ call' = [call EXCEPT ![w] = Advance(@)]
    /\ UNCHANGED <<aggVars, orchVars, logger, calls, fs, lastRead>>

\* open(path, "w"): the file exists and is empty from here on.
CaptureOpen(w) ==
    /\ Running(w)
    /\ Step(w).k = "file"
    /\ call[w].n = -1
    /\ fs' = Put(fs, PathOf(w, call[w], Step(w).name), Artifact(w, 0, Captured(w)))
    /\ call' = [call EXCEPT ![w].n = 0]
    /\ UNCHANGED <<aggVars, orchVars, logger, calls, dirs, lastRead>>

\* json.dump (f.write, image.save) writes the next part of the document; the
\* with block closes the file after the last one.
CaptureWrite(w) ==
    /\ Running(w)
    /\ Step(w).k = "file"
    /\ call[w].n >= 0
    /\ fs' = Put(fs, PathOf(w, call[w], Step(w).name),
                  Artifact(w, call[w].n + 1, Captured(w)))
    /\ call' = [call EXCEPT ![w] =
                   IF call[w].n + 1 = DocChunks THEN Advance(@) ELSE [@ EXCEPT !.n = @ + 1]]
    /\ UNCHANGED <<aggVars, orchVars, logger, calls, dirs, lastRead>>

\* What a capture operation does with an exception of the step it is at
\* (OSError of makedirs, open or write; an error of the serialiser): no
\* operation has a try block, the exception leaves it.
OnCaptureError(cl) == [cl EXCEPT !.plan = <<>>, !.at = 1, !.n = -1, !.status = "raised"]

CaptureStepFails(w) ==
    /\ Running(w)
    /\ call' = [call EXCEPT ![w] = OnCaptureError(@)]
    /\ UNCHANGED <<aggVars, orchVars, logger, calls, dirs, fs, lastRead>>

\* result_file.read_text() of a request handler, which runs in a worker thread
\* while the writers run.
ReadArtifact(path) ==
    /\ path \in DOMAIN fs
    /\ lastRead' = [path |-> path, n |-> fs[path].n]
    /\ UNCHANGED <<aggVars, orchVars, logger, call, calls, dirs, fs>>

\* ---------------------------------------------------- aggregation service

\* json.loads(result_file.read_text()) raises on a text that was cut short.
Parses(file) == file.n = DocChunks

ResultPaths(store) == {p \in DOMAIN store : p[3] = "pipeline_result.json"}

PathLess(p, q) ==
    \/ NameRank(p[1]) < NameRank(q[1])
    \/ p[1] = q[1] /\ NameRank(p[2]) < NameRank(q[2])

\* sorted(DEBUG_DIR.iterdir()), and sorted(session_dir.iterdir()) within each.
RECURSIVE SortedPaths(_)
SortedPaths(S) ==
    IF S = {} THEN <<>>
    ELSE LET p == CHOOSE x \in S : \A y \in S \ {x} : PathLess(x, y)
         IN  <<p>> \o SortedPaths(S \ {p})

\* try: results.append(json.loads(...)); except Exception: pass
RECURSIVE LoadResults(_, _)
LoadResults(store, paths) ==
    IF paths = <<>> THEN <<>>
    ELSE (IF Parses(store[Head(paths)]) THEN <<store[Head(paths)].doc>> ELSE <<>>)
         \o LoadResults(store, Tail(paths))

load_all_session_results(store) == LoadResults(store, SortedPaths(ResultPaths(store)))

\* Mutant: the loader removes the files it cannot parse.
AfterLoadPruned(store) == [p \in {q \in DOMAIN store : Parses(store[q])} |-> store[p]]

\* The store after a handler has read it: nothing is written or removed.
AfterLoad(store) == store

RECURSIVE SumSeq(_)
SumSeq(q) == IF q = <<>> THEN 0 ELSE Head(q) + SumSeq(Tail(q))

\* round(total / n, d), in units of 10^-d, for n > 0.  No quotient of the
\* values used here lies halfway between two units.
Round(total, n) == (2 * total + n) \div (2 * n)

Mean(values) ==
    IF values = <<>> THEN Absent ELSE Some(Round(SumSeq(values), Len(values)))

IsObject(d) == d.json = "object"

\* s.get("iri", {}).get("iri_value") raises AttributeError when s is no dict
\* or its "iri" is null.
IriRaises(d) == ~IsObject(d) \/ d.iri = "null"

HasIri(d) == d.iri = "object" /\ d.iri_value # Absent

HasPci(d) == d.pci_estimate # Absent

IriValues(segs) ==
    LET with == SelectSeq(segs, HasIri) IN [i \in DOMAIN with |-> with[i].iri_value[1]]

PciValues(segs) ==
    LET with == SelectSeq(segs, HasPci) IN [i \in DOMAIN with |-> with[i].pci_estimate[1]]

\* sum(s.get("length_km", 0) for s in segs)
TotalKm(segs) ==
    SumSeq([i \in DOMAIN segs |->
               IF segs[i].length_km = Absent THEN 0 ELSE segs[i].length_km[1]])

\* sum(len(s.get("distresses", [])) for s in segs)
DistressCount(segs) ==
    SumSeq([i \in DOMAIN segs |->
               IF segs[i].distresses = Absent THEN 0 ELSE segs[i].distresses[1]])

session_summary_from_segments(session_id, segs) ==
    [session_id |-> session_id,
     status |-> "completed",
     segment_count |-> Len(segs),
     avg_iri |-> Mean(IriValues(segs)),
     avg_pci |-> Mean(PciValues(segs)),
     total_distance_km |-> Some(TotalKm(segs))]

\* seg.get("session_id", "unknown")
SidOf(d) == IF d.session_id = Absent THEN "unknown" ELSE d.session_id[1]

RECURSIVE SortedNames(_)
SortedNames(S) ==
    IF S = {} THEN <<>>
    ELSE LET a == CHOOSE x \in S : \A y \in S : NameRank(x) <= NameRank(y)
         IN  <<a>> \o SortedNames(S \ {a})

\* list_sessions, the sessions of the files: grouped by the documents'
\* session_id, in sorted order.
FileSessions(all) ==
    LET ids == SortedNames({SidOf(all[i]) : i \in DOMAIN all})
    IN  [k \in DOMAIN ids |->
            session_summary_from_segments(
                ids[k], SelectSeq(all, LAMBDA d : SidOf(d) = ids[k]))]

\* A handler that reads the fields of the documents raises AttributeError on
\* the first one that is no dict or has a null "iri".
FieldsRaise(all) == \E i \in DOMAIN all : IriRaises(all[i])

\* The pipeline has returned from process_segment in this task.
PipelineReturned(t) == t.st \notin {"created", "running"} /\ t.cause \notin Causes

\* pipeline.get_session_summary() of connection c.
get_session_summary(c) ==
    LET done == SelectSeq(tasks[c], PipelineReturned)
        segs == [i \in DOMAIN done |-> ResultDoc(c, done[i].seg)]
    IN  [segments_processed |-> Len(segs),
         avg_iri |-> Mean(IriValues(segs)),
         total_length_km |-> TotalKm(segs),
         segments |-> segs]

\* The entry list_sessions adds for an active session that has no file.
ActiveSession(s, state) ==
    LET summary == get_session_summary(state.owner)
    IN  [session_id |-> s,
         status |-> "active",
         segment_count |-> summary.segments_processed,
         avg_iri |-> summary.avg_iri,
         avg_pci |-> Absent,
         total_distance_km |-> Some(summary.total_length_km)]

\* The entry get_live_status makes for one item of the registry.
LiveSession(s, state) ==
    LET summary == get_session_summary(state.owner)
    IN  [session_id |-> s,
         status |-> "active",
         current_gps |-> state.current_gps,
         current_speed_kmh |-> state.current_speed_kmh,
         current_iri |-> summary.avg_iri,
         current_pci |-> Absent,
         segment_count |-> summary.segments_processed]

\* What get_global_stats returns for the documents loaded and the registry.
get_global_stats(all, registry) ==
    [total_sessions |->
         Cardinality({all[i].session_id : i \in DOMAIN all})
         + Cardinality(DOMAIN registry),
     total_segments |-> Len(all),
     total_distance_km |-> Some(TotalKm(all)),
     avg_iri |-> Mean(IriValues(all)),
     avg_pci |-> Mean(PciValues(all)),
     distress_count |-> DistressCount(all)]

\* Mutant: the segment directories are listed last to first.
CompletedSegmentsNewestFirst(store, directories, s) ==
    LET paths == SortedPaths({p \in ResultPaths(store) : p[1] = s})
    IN  [session_id |-> s,
         status |-> "completed",
         segments |-> LoadResults(store, [i \in DOMAIN paths |->
                                             paths[Len(paths) + 1 - i]])]

\* get_session_segments for a session that is not active: its result files in
\* the sorted order of the segment directories.
CompletedSegments(store, directories, s) ==
    IF <<s>> \notin directories
    THEN [error |-> "not found", segments |-> <<>>]
    ELSE [session_id |-> s,
          status |-> "completed",
          segments |-> LoadResults(store,
                           SortedPaths({p \in ResultPaths(store) : p[1] = s}))]

\* The order in which a set of session ids is iterated: fixed by the hashes.
Pick(S) == CHOOSE x \in S : TRUE

\* What no handler touches while it runs.
RequestFrame == UNCHANGED <<orchVars, logger, call, calls, dirs, lastRead>>

\* GET /api/stats: the registry is read once, by len().
GetGlobalStats ==
    /\ NoRequestRunning
    /\ LET r   == NewRequest("get_global_stats", None)
           all == load_all_session_results(fs)
       IN  req' = IF FieldsRaise(all)
                  THEN Raises(r, "AttributeError")
                  ELSE Returns(r, get_global_stats(all, active_sessions))
    /\ resp' = req
    /\ fs' = AfterLoad(fs)
    /\ RequestFrame

\* GET /api/sessions up to `for sid in active_ids - file_ids`.
ListSessionsBegin ==
    /\ NoRequestRunning
    /\ LET r   == NewRequest("list_sessions", None)
           all == load_all_session_results(fs)
       IN  req' =
             IF FieldsRaise(all) THEN Raises(r, "AttributeError")
             ELSE LET sessions == FileSessions(all)
                      file_ids == {sessions[k].session_id : k \in DOMAIN sessions}
                      todo     == DOMAIN active_sessions \ file_ids
                  IN  IF todo = {} THEN Returns(r, [sessions |-> sessions])
                      ELSE [r EXCEPT !.at = "lookup", !.todo = todo,
                                     !.out = [sessions |-> sessions]]
    /\ resp' = req
    /\ fs' = AfterLoad(fs)
    /\ RequestFrame

\* One turn of that loop: active_sessions[sid] is looked up, the summary of
\* its pipeline is appended.
ListSessionsLookup ==
    /\ req.op = "list_sessions"
    /\ req.at = "lookup"
    /\ LET s == Pick(req.todo)
       IN  req' =
             IF s \notin DOMAIN active_sessions THEN Raises(req, "KeyError")
             ELSE LET out == [sessions |->
                                 Append(req.out.sessions,
                                        ActiveSession(s, active_sessions[s]))]
                  IN  IF req.todo = {s} THEN Returns(req, out)
                      ELSE [req EXCEPT !.todo = @ \ {s}, !.out = out]
    /\ UNCHANGED <<resp, fs>>
    /\ RequestFrame

\* GET /api/sessions/{session_id}/segments: `if session_id in active_sessions`,
\* and the files when it is not.
GetSessionSegmentsBegin(s) ==
    /\ NoRequestRunning
    /\ LET r == NewRequest("get_session_segments", s)
       IN  req' = IF s \in DOMAIN active_sessions
                  THEN [r EXCEPT !.at = "lookup"]
                  ELSE Returns(r, CompletedSegments(fs, dirs, s))
    /\ resp' = req
    /\ fs' = AfterLoad(fs)
    /\ RequestFrame

\* active_sessions[session_id]["pipeline"].get_session_summary()
GetSessionSegmentsLookup ==
    /\ req.op = "get_session_segments"
    /\ req.at = "lookup"
    /\ req' = IF req.arg \notin DOMAIN active_sessions THEN Raises(req, "KeyError")
              ELSE Returns(req,
                       [session_id |-> req.arg,
                        status |-> "active",
                        segments |->
                            get_session_summary(active_sessions[req.arg].owner).segments])
    /\ UNCHANGED <<resp, fs>>
    /\ RequestFrame

\* GET /session/{session_id}/summary: `if session_id in active_sessions`.
GetSessionSummaryBegin(s) ==
    /\ NoRequestRunning
    /\ LET r == NewRequest("get_session_summary", s)
       IN  req' = IF s \in DOMAIN active_sessions
                  THEN [r EXCEPT !.at = "lookup"]
                  ELSE Returns(r, [error |-> "not found"])
    /\ resp' = req
    /\ UNCHANGED fs
    /\ RequestFrame

GetSessionSummaryLookup ==
    /\ req.op = "get_session_summary"
    /\ req.at = "lookup"
    /\ req' = IF req.arg \notin DOMAIN active_sessions THEN Raises(req, "KeyError")
              ELSE Returns(req, get_session_summary(active_sessions[req.arg].owner))
    /\ UNCHANGED <<resp, fs>>
    /\ RequestFrame

\* GET /api/live: `for sid, state in active_sessions.items()` makes its
\* iterator, which remembers the size of the dict.
GetLiveStatusBegin ==
    /\ NoRequestRunning
    /\ req' = [NewRequest("get_live_status", None) EXCEPT
                  !.at = "iterating",
                  !.n = Cardinality(DOMAIN active_sessions),
                  !.out = [sessions |-> <<>>]]
    /\ resp' = req
    /\ UNCHANGED fs
    /\ RequestFrame

\* The iterator is asked for the next item: RuntimeError if the dict has
\* changed size, else the body of the loop runs for an item not yet seen, or
\* the handler returns.
GetLiveStatusNext ==
    /\ req.op = "get_live_status"
    /\ req.at = "iterating"
    /\ LET left == DOMAIN active_sessions \ req.todo
       IN  req' =
             IF Cardinality(DOMAIN active_sessions) # req.n
             THEN Raises(req, "RuntimeError")
             ELSE IF left = {}
                  THEN Returns(req, [active |-> req.out.sessions # <<>>,
                                     sessions |-> req.out.sessions])
                  ELSE LET s == Pick(left)
                       IN  [req EXCEPT
                               !.todo = @ \cup {s},
                               !.out = [sessions |->
                                           Append(req.out.sessions,
                                                  LiveSession(s, active_sessions[s]))]]
    /\ UNCHANGED <<resp, fs>>
    /\ RequestFrame

\* ---------------------------------------------------------- specification

TaskIds == 1..(MaxSegments + 1)

\* The behaviour of the connections in `conns`.
NextOf(conns) ==
    \/ \E c \in conns, s \in SessionIds : s \in SidChoices(c) /\ Open(c, s)
    \/ \E c \in conns, k \in PacketKinds : ClientSend(c, k)
    \/ \E c \in conns : ClientDisconnect(c)
    \/ \E c \in conns : ServerClose(c)
    \/ \E c \in conns : LoopPacket(c)
    \/ \E c \in conns : LoopDecodeFailure(c)
    \/ \E c \in conns : LoopTelemetryFailure(c)
    \/ \E c \in conns : LoopDisconnect(c)
    \/ \E c \in conns, i \in TaskIds : TaskStart(c, i)
    \/ \E c \in conns, i \in TaskIds : TaskPipelineReturns(c, i, "ok")
    \/ \E c \in conns, i \in TaskIds : TaskPipelineReturns(c, i, "numpy")
    \/ \E c \in conns, i \in TaskIds, e \in Causes : TaskPipelineFails(c, i, e)
    \/ \E c \in conns, i \in TaskIds : TaskSendResult(c, i)
    \/ \E c \in conns, i \in TaskIds : TaskSendResultRaises(c, i)
    \/ \E c \in conns, i \in TaskIds : TaskSendResultDropped(c, i)
    \/ \E c \in conns, i \in TaskIds : TaskSendError(c, i)
    \/ \E c \in conns, i \in TaskIds : TaskSendErrorRaises(c, i)
    \/ \E c \in conns, i \in TaskIds : TaskSendErrorDropped(c, i)

\* One connection with its loop and its tasks.
Next == NextOf({1})

Spec == Init /\ [][Next]_vars

FileNames == {"raw_sensor_stats.json", "captured_frames/frame_000.jpg",
              "vlm_input_frames/vlm_frame_000.jpg", "vlm_prompt.json",
              "vlm_raw_response.txt", "vlm_parsed.json", "pipeline_result.json"}
             \cup {StageFile(st) : st \in Stages}

\* The callers W of the debug capture and a reader of the artifact store.
NextCaptureOf(W) ==
    \/ \E w \in W, s \in SessionIds, e \in BOOLEAN :
          s \in LoggerSids(w) /\ NewLogger(w, s, e)
    \/ \E w \in W, op \in CaptureOps, seg \in CaptureSegments \cup {None},
          nf \in 0..1, st \in Stages : CaptureCall(w, op, seg, nf, st)
    \/ \E w \in W : CaptureMkdir(w)
    \/ \E w \in W : CaptureOpen(w)
    \/ \E w \in W : CaptureWrite(w)
    \/ \E w \in W : CaptureStepFails(w)
    \/ \E s \in SessionIds, seg \in CaptureSegments \cup {"unknown"}, f \in FileNames :
          ReadArtifact(<<s, seg, f>>)

NextCapture == NextCaptureOf(Callers)

\* One caller of the debug capture and the reader.
NextLogger == NextCaptureOf({"w1"})

SpecLogger == Init /\ [][NextLogger]_vars

SpecCapture == Init /\ [][NextCapture]_vars

\* Two connections that open and close, and a client of the REST API.
NextRegistry ==
    \/ \E c \in Conns, s \in SessionIds : s \in SidChoices(c) /\ Open(c, s)
    \/ \E c \in Conns : ClientDisconnect(c)
    \/ \E c \in Conns : LoopDisconnect(c)
    \/ GetLiveStatusBegin
    \/ GetLiveStatusNext
    \/ ListSessionsBegin
    \/ ListSessionsLookup
    \/ \E s \in SessionIds : GetSessionSegmentsBegin(s)
    \/ GetSessionSegmentsLookup
    \/ \E s \in SessionIds : GetSessionSummaryBegin(s)
    \/ GetSessionSummaryLookup

SpecRegistry == Init /\ [][NextRegistry]_vars

\* The aggregation over a store of earlier runs, while one connection opens
\* and closes.
NextStored ==
    \/ Open(1, "s1")
    \/ ClientDisconnect(1)
    \/ LoopDisconnect(1)
    \/ GetGlobalStats
    \/ ListSessionsBegin
    \/ ListSessionsLookup
    \/ \E s \in SessionIds : GetSessionSegmentsBegin(s)
    \/ GetSessionSegmentsLookup

SpecStored == InitStored /\ [][NextStored]_vars

\* One drive of position fixes with its tasks, and a client that asks for the
\* segments of the session.
NextHistory ==
    \/ Open(1, "s1")
    \/ ClientSend(1, "gps")
    \/ ClientDisconnect(1)
    \/ LoopPacket(1)
    \/ LoopDisconnect(1)
    \/ \E i \in TaskIds : TaskStart(1, i)
    \/ \E i \in TaskIds : TaskPipelineReturns(1, i, "ok")
    \/ \E i \in TaskIds, e \in Causes : TaskPipelineFails(1, i, e)
    \/ \E i \in TaskIds : TaskSendResult(1, i)
    \/ \E i \in TaskIds : TaskSendResultRaises(1, i)
    \/ \E i \in TaskIds : TaskSendResultDropped(1, i)
    \/ \E i \in TaskIds : TaskSendError(1, i)
    \/ \E i \in TaskIds : TaskSendErrorRaises(1, i)
    \/ \E i \in TaskIds : TaskSendErrorDropped(1, i)
    \/ GetSessionSegmentsBegin("s1")
    \/ GetSessionSegmentsLookup

SpecHistory == Init /\ [][NextHistory]_vars

\* Two connections and a client of GET /api/live: the first connection streams
\* packets, the second one opens and closes, and the handler's worker thread
\* runs between any two statements of the loop's telemetry update.
NextLive ==
    \/ \E c \in Conns, s \in SessionIds :
          s \in SidChoices(c) /\ EventLoopFree /\ Open(c, s)
    \/ \E k \in {"imu", "gps", "gps_badspeed"} : ClientSend(1, k)
    \/ \E c \in Conns : ClientDisconnect(c)
    \/ \E c \in Conns : EventLoopFree /\ LoopDisconnect(c)
    \/ LoopReady(1) /\ ~IsGps(Packet(1).kind) /\ LoopPacket(1)
    \/ LoopReady(1) /\ sid[1] \notin DOMAIN active_sessions /\ LoopTelemetryFailure(1)
    \/ LoopGpsPosition(1)
    \/ LoopGpsSpeed(1)
    \/ LoopGpsSpeedRaises(1)
    \/ GetLiveStatusBegin
    \/ GetLiveStatusNext

SpecLive == Init /\ [][NextLive]_vars

\* ------------------------------------------------------------------ claims

Finished(t) == t.st \in {"done", "failed"}

\* The messages task i of connection c has had delivered.
MessagesOf(c, i) == SelectSeq(outbox[c], LAMBDA m : m.by = i)

\* C1: every segment task has at most one message delivered, a segment_result
\* or an error, never both and never one twice; a finished task has none only
\* if the connection was no longer open when it came to deliver (it skipped the
\* send, or its send met a closed socket).
C1_AtMostOneOutcome ==
    \A c \in Conns : \A i \in DOMAIN tasks[c] :
        /\ Len(MessagesOf(c, i)) <= 1
        /\ Len(MessagesOf(c, i)) = 1 => tasks[c][i].st = "done"
        /\ (Finished(tasks[c][i]) /\ MessagesOf(c, i) = <<>>) => tasks[c][i].note # None

\* One task delivered its result, a second one an error after its result could
\* not be sent, a third one finished with nothing delivered.
C1_Witness ==
    \E c \in Conns : \E i, j, k \in DOMAIN tasks[c] :
        /\ Len(MessagesOf(c, i)) = 1
        /\ MessagesOf(c, i)[1].payload.type = "segment_result"
        /\ Len(MessagesOf(c, j)) = 1
        /\ MessagesOf(c, j)[1].payload.type = "error"
        /\ tasks[c][j].cause = "TypeError"
        /\ Finished(tasks[c][k])
        /\ MessagesOf(c, k) = <<>>

\* C2: whenever the loop of a connection ends, for whatever reason, the same
\* step has called pipeline.finalise() and leaves the registry without an
\* entry for the connection's session_id.
C2_TeardownOnExit ==
    [][\A c \in Conns :
          (pc[c] = "recv" /\ pc'[c] # "recv") =>
              /\ pc'[c] = "done"
              /\ pipeline'[c].finalised
              /\ sid[c] \notin DOMAIN active_sessions']_vars

\* A loop that ended on a frame that is not JSON, after teardown.
C2_Witness ==
    \E c \in Conns :
        /\ loopExit[c] = "decode"
        /\ pipeline[c].finalised
        /\ sid[c] \notin DOMAIN active_sessions

\* C3 (as claimed): a reader of the artifact store sees a file absent or whole,
\* never empty or partly written.
C3_ReaderSeesWholeFiles == lastRead.n \in {-1, DocChunks}

\* The step in which task i of connection c has process_segment fail.
PipelineFailsIn(c, i) ==
    /\ tasks[c][i].st = "running"
    /\ tasks'[c][i].cause \in Causes

\* C4: a failure of process_segment in one task ends neither the loop nor any
\* other task: the step leaves the loop, its inbox, its assembler and every
\* other task as they were, so the loop still takes the next frame and the
\* other tasks still take their next step.
C4_FailureIsolated ==
    [][\A c \in Conns : \A i \in DOMAIN tasks[c] :
          PipelineFailsIn(c, i) =>
              /\ pc' = pc
              /\ inbox' = inbox
              /\ manager' = manager
              /\ client_state' = client_state
              /\ \A j \in DOMAIN tasks[c] : j # i => tasks'[c][j] = tasks[c][j]]_vars

\* The error of a failed segment was delivered; after that the loop ingested a
\* further packet and a segment dispatched later had its result delivered.
C4_Witness ==
    \E c \in Conns : \E a, b \in DOMAIN outbox[c] :
        /\ a < b
        /\ outbox[c][a].payload.type = "error"
        /\ tasks[c][outbox[c][a].by].cause \in Causes
        /\ outbox[c][b].payload.type = "segment_result"
        /\ outbox[c][b].by > outbox[c][a].by
        /\ outbox[c][b].seen > outbox[c][a].seen

\* C5 (as claimed): the error message delivered for a segment on which the
\* pipeline failed carries the segment's identifier and the cause.
C5_ErrorNamesSegment ==
    \A c \in Conns : \A k \in DOMAIN outbox[c] :
        (/\ outbox[c][k].payload.type = "error"
         /\ tasks[c][outbox[c][k].by].cause \in Causes) =>
            /\ "message" \in DOMAIN outbox[c][k].payload
            /\ "segment_id" \in DOMAIN outbox[c][k].payload

\* The tasks a step has added to connection c.
Spawned(c) == SubSeq(tasks'[c], Len(tasks[c]) + 1, Len(tasks'[c]))

\* C6: the step that handles the disconnect flushes the assembler, gives every
\* segment then ready its task and tears down; it dispatches a trailing
\* partial segment, holding the buffered packets, if and only if the assembler
\* held buffered data.
C6_FlushOnDisconnect ==
    [][\A c \in Conns :
          (client_state[c] = "CONNECTED" /\ client_state'[c] = "DISCONNECTED") =>
              /\ pc'[c] = "done"
              /\ pipeline'[c].finalised
              /\ manager'[c].ready = <<>>
              /\ manager'[c].buf = <<>>
              /\ Len(Spawned(c)) =
                    Len(manager[c].ready) + (IF manager[c].buf # <<>> THEN 1 ELSE 0)
              /\ \A k \in DOMAIN Spawned(c) : Spawned(c)[k].st = "created"
              /\ manager[c].buf # <<>> =>
                    /\ Spawned(c)[Len(Spawned(c))].seg.partial
                    /\ Spawned(c)[Len(Spawned(c))].seg.pkts = manager[c].buf
              /\ manager[c].buf = <<>> =>
                    \A k \in DOMAIN Spawned(c) : ~Spawned(c)[k].seg.partial]_vars

\* A drive that never filled a segment: the only task is the one of the
\* partial segment dispatched on disconnect.
C6_Witness ==
    \E c \in Conns :
        /\ loopExit[c] = "disconnect"
        /\ Len(tasks[c]) = 1
        /\ tasks[c][1].seg.partial
        /\ tasks[c][1].seg.pkts # <<>>

\* C7: packets reach the assembler in arrival order, none skipped (the k-th
\* ingested is the k-th that arrived); the loop never waits for a packet with
\* a ready segment unpolled; tasks are in the order the assembler reported
\* their segments, whatever the tasks have done since.
C7_InOrder ==
    \A c \in Conns :
        /\ \A k \in DOMAIN ingestLog[c] : ingestLog[c][k] = k
        /\ pc[c] = "recv" => manager[c].ready = <<>>
        /\ Len(tasks[c]) = Len(readyLog[c])
        /\ \A k \in DOMAIN tasks[c] : tasks[c][k].seg = readyLog[c][k]

\* Two segments reported ready in one poll, the second one's task finished
\* while the first one's has not started.
C7_Witness ==
    \E c \in Conns :
        /\ Len(tasks[c]) >= 2
        /\ tasks[c][1].seg.pkts[Len(tasks[c][1].seg.pkts)] = tasks[c][2].seg.pkts[1]
        /\ tasks[c][2].seg.segment_id = tasks[c][1].seg.segment_id + 1
        /\ tasks[c][1].st = "created"
        /\ tasks[c][2].st = "done"
        /\ Len(ingestLog[c]) >= 2

\* One turn of the loop of connection c, whatever the frame.
LoopTurn(c) ==
    \/ LoopPacket(c)
    \/ LoopDecodeFailure(c)
    \/ LoopTelemetryFailure(c)
    \/ LoopDisconnect(c)

\* C8: the loop never waits for a task: with a frame in its inbox it can take
\* its next turn, whatever state its tasks are in.
C8_LoopNeverWaits ==
    \A c \in Conns :
        (pc[c] = "recv" /\ inbox[c] # <<>>) => ENABLED LoopTurn(c)

Last(q) == q[Len(q)]

\* A task still inside process_segment while the loop has ingested a packet
\* that arrived after its segment and dispatched a later segment.
C8_Witness ==
    \E c \in Conns : \E i, j \in DOMAIN tasks[c] :
        /\ i < j
        /\ tasks[c][i].st = "running"
        /\ Len(ingestLog[c]) > Last(tasks[c][i].seg.pkts)
        /\ Last(tasks[c][j].seg.pkts) > Last(tasks[c][i].seg.pkts)

\* C9 (as claimed): no task calls send_json on a closed connection, and no
\* task ends with an exception.
C9_NoSendOnClosed ==
    \A c \in Conns : \A i \in DOMAIN tasks[c] :
        /\ tasks[c][i].note # "closed_send"
        /\ tasks[c][i].st # "failed"

\* C10 (as claimed): no capture operation raises to its caller.
C10_CaptureNeverRaises == \A w \in Callers : call[w].status # "raised"

\* The step is one of caller w: its logger is made or its call moves.
StepOf(w) == logger'[w] # logger[w] \/ call'[w] # call[w]

\* C11: a step of a caller whose DebugLogger is disabled, its construction or
\* any of its operations, creates no directory and writes no file, and the
\* operation has returned to the caller by the end of the step.
C11_DisabledLeavesStore ==
    [][\A w \in Callers :
          (StepOf(w) /\ ~logger'[w].enabled) =>
              /\ dirs' = dirs
              /\ fs' = fs
              /\ call'[w].status \in {"none", "returned"}]_vars

\* A disabled logger has made all its calls, one of them with frames to save,
\* and the store is still empty.
C11_Witness ==
    \E w \in Callers :
        /\ logger[w].made
        /\ ~logger[w].enabled
        /\ calls[w] = MaxCalls
        /\ call[w].status = "returned"
        /\ call[w].op = "log_vlm_input"
        /\ dirs = {}
        /\ fs = EmptyMap

\* C12 (as claimed): a file of the store, once it exists, is never opened
\* again: its content only grows under the writer that created it, and no
\* other write targets its path.
C12_AppendOnly ==
    [][\A p \in DOMAIN fs :
          /\ fs'[p].by = fs[p].by
          /\ fs'[p].n >= fs[p].n]_vars

\* C20 (as claimed): no task is inside process_segment on a pipeline on which
\* finalise() has been called.
C20_NoUseAfterFinalise ==
    \A c \in Conns : \A i \in DOMAIN tasks[c] :
        tasks[c][i].st = "running" => ~pipeline[c].finalised

\* C13 (as claimed): no request fails because the registry changed under it.
C13_ReadsNeverFail == req.error \notin {"KeyError", "RuntimeError"}

\* A request of this endpoint has returned and no connection has changed the
\* registry since the request began.
JustReturned(op) == req.op = op /\ req.at = "returned" /\ req.epoch = Epoch

\* C14 (as claimed): total_sessions is the number of distinct session ids among
\* the recorded results and the active sessions together.
C14_SessionsCountedOnce ==
    JustReturned("get_global_stats") =>
        LET all == load_all_session_results(fs)
        IN  req.out.total_sessions =
                Cardinality({all[i].session_id : i \in DOMAIN all}
                            \cup {Some(s) : s \in DOMAIN active_sessions})

\* The readable result documents under the directory of session s.
ResultsIn(store, s) ==
    LoadResults(store, SortedPaths({p \in ResultPaths(store) : p[1] = s}))

\* Every file of the store is a readable final result with a roughness value.
FinalResultsOnly(store) ==
    \A p \in DOMAIN store : Parses(store[p]) /\ HasIri(store[p].doc)

\* C15 (as claimed): over a store of final results, the listing has for each
\* session directory an entry with the number of its documents and the mean
\* (as rounded) of their roughness values, and the global statistics have the
\* number of all documents and the mean of all roughness values.
C15_MeansPerSession ==
    FinalResultsOnly(fs) =>
        /\ (req.op = "list_sessions" /\ req.at = "returned") =>
               \A s \in {p[1] : p \in DOMAIN fs} :
                   \E k \in DOMAIN req.out.sessions :
                       /\ req.out.sessions[k].session_id = s
                       /\ req.out.sessions[k].segment_count = Len(ResultsIn(fs, s))
                       /\ req.out.sessions[k].avg_iri = Mean(IriValues(ResultsIn(fs, s)))
        /\ (req.op = "get_global_stats" /\ req.at = "returned") =>
               /\ req.out.total_segments = Cardinality(DOMAIN fs)
               /\ req.out.avg_iri = Mean(IriValues(load_all_session_results(fs)))

\* A file the aggregation can use: JSON, an object, its "iri" not null.
Usable(file) == Parses(file) /\ ~IriRaises(file.doc)

UsableStore(store) == [p \in {q \in DOMAIN store : Usable(store[q])} |-> store[p]]

\* C16 (as claimed): no request fails on a file it cannot use, and the global
\* statistics are those of the store without such files.
C16_UnusableSkipped ==
    /\ req.error # "AttributeError"
    /\ JustReturned("get_global_stats") =>
           req.out = get_global_stats(load_all_session_results(UsableStore(fs)),
                                      active_sessions)

\* A rollup over the documents `segs` reports as absent what none of them has.
NoComputedZero(rollup, segs) ==
    /\ IriValues(segs) = <<>> => rollup.avg_iri = Absent
    /\ PciValues(segs) = <<>> => rollup.avg_pci = Absent
    /\ (\A i \in DOMAIN segs : segs[i].length_km = Absent) =>
           rollup.total_distance_km = Absent

\* C17 (as claimed): in the global statistics and in every per-session summary
\* made from documents, average roughness, average condition and total
\* distance are absent when no contributing document has the field.
C17_MissingIsAbsent ==
    LET all == load_all_session_results(fs)
    IN  /\ (req.op = "get_global_stats" /\ req.at = "returned" /\ all # <<>>) =>
               NoComputedZero(req.out, all)
        /\ (req.op = "list_sessions" /\ req.at = "returned") =>
               \A k \in DOMAIN req.out.sessions :
                   req.out.sessions[k].status = "completed" =>
                       NoComputedZero(
                           req.out.sessions[k],
                           SelectSeq(all, LAMBDA d :
                                            SidOf(d) = req.out.sessions[k].session_id))

RequestDone(r) == r.at \in {"returned", "raised"}

\* The request just served repeats the one served before it.
Repeated == RequestDone(req) /\ resp.op = req.op /\ resp.arg = req.arg

SameResponse == req.at = resp.at /\ req.error = resp.error /\ req.out = resp.out

ListedAfterDrive(c) ==
    /\ loopExit[c] = "disconnect"
    /\ \A i \in DOMAIN tasks[c] : Finished(tasks[c][i])
    /\ req' # req
    /\ req'.op = "get_session_segments"
    /\ req'.arg = sid[c]
    /\ req'.at = "returned"

ResultsOf(c) ==
    LET done == SelectSeq(tasks[c], PipelineReturned)
    IN  [i \in DOMAIN done |-> ResultDoc(c, done[i].seg)]

LoopRunning(c) == pc[c] = "recv"

\* C21 (as claimed): every connection whose loop is running has a registry
\* entry under its session_id, and that entry is the one this connection
\* created: no other connection's opening has replaced it and no other
\* connection's teardown has removed it.
C21_OwnEntryWhileRunning ==
    \A c \in Conns :
        LoopRunning(c) =>
            /\ sid[c] \in DOMAIN active_sessions
            /\ active_sessions[sid[c]].owner = c

\* The segments the assembler of connection c has made ready so far: those the
\* loop took from it and those still in it.
MadeReady(c) == readyLog[c] \o get_ready_segments(manager[c])

\* The segments handed to the tasks of connection c, in spawn order.
Dispatched(c) == [i \in DOMAIN tasks[c] |-> tasks[c][i].seg]

\* C22 (as claimed): between two turns of the loop and after its end, however
\* it ended, the segments the assembler has made ready are the segments of the
\* tasks, each one once: none has two tasks and none is left in the assembler.
C22_ReadyDispatchedOnce ==
    \A c \in Conns :
        /\ Dispatched(c) = MadeReady(c)
        /\ \A i, j \in DOMAIN tasks[c] :
              tasks[c][i].seg.segment_id = tasks[c][j].seg.segment_id => i = j

\* The position and the speed of a registry entry, or of an item of the
\* response of GET /api/live.
Telemetry(state) == <<state.current_gps, state.current_speed_kmh>>

\* Position and speed are of one packet: packet n carries position n and
\* speed n m/s, and an entry starts with neither.
Paired(state) == state.current_speed_kmh = 36 * state.current_gps.lat

\* The step is one of the ingestion loop of connection c.
LoopStepOf(c) == pc'[c] # pc[c] \/ ingestLog'[c] # ingestLog[c]

\* C23 (as claimed): the telemetry of a registry entry changes only in a step
\* of the loop of the connection that created the entry, and only for a gps
\* packet; and in what GET /api/live reads of the snapshot, position and speed
\* are those of one and the same packet.
C23_TelemetryOwnGpsPaired ==
    /\ []((req.op = "get_live_status" /\ req.at # "raised") =>
             \A i \in DOMAIN req.out.sessions : Paired(req.out.sessions[i]))
    /\ [][\A s \in DOMAIN active_sessions \cap DOMAIN active_sessions' :
             (/\ active_sessions'[s].owner = active_sessions[s].owner
              /\ Telemetry(active_sessions'[s]) # Telemetry(active_sessions[s]))
             => /\ LoopStepOf(active_sessions[s].owner)
                /\ IsGps(Packet(active_sessions[s].owner).kind)]_vars

====
